---- MODULE Spec2Model ----
(***************************************************************************)
(* Model of dx-lib's validated server-action dispatcher                    *)
(* (defineValidatedAction, execute, executeNoInput, handleActionResponse)  *)
(* and of the tryCatch primitive it is built on.                           *)
(*                                                                         *)
(* One handle is defined in Init (the configuration captured by the        *)
(* closure); callers invoke it, and every invocation advances through its  *)
(* await points: the pending auth() promise and the pending action promise.*)
(*                                                                         *)
(* tryCatch, defineDataAccessFunction and safeStringLiteral are also       *)
(* modelled on their own, each with its specification: SpecTryCatch,       *)
(* SpecDal and SpecLiteral.                                                *)
(***************************************************************************)
EXTENDS Integers, Sequences, FiniteSets, TLC

VARIABLES config, env, inv, calls, tc, dal, lit

vars == <<config, env, inv, calls, tc, dal, lit>>

(***************************************************************************)
(* Bounds of the model.                                                    *)
(***************************************************************************)
\* invocations started on the handle in one behaviour
MaxCalls == 2
\* entries appended to one FormData
MaxEntries == 2
\* calls of tryCatch made in one behaviour
MaxTryCatchCalls == 2
\* parameters passed to a data access function in one call
MaxParams == 2
\* values a literal set is made of
MaxLiterals == 2
\* elements of a list given to toLiterals
MaxValues == 2

\* the callers that may hold an invocation of the handle at the same time
Callers == {"c1", "c2"}

(***************************************************************************)
(* JavaScript values. A string that is searched (an error message) is a    *)
(* sequence of characters; a string that is only compared is an atom.      *)
(***************************************************************************)
Undef == [t |-> "undefined"]
Null == [t |-> "null"]
Str(s) == [t |-> "string", s |-> s]
Num(n) == [t |-> "number", n |-> n]
Obj(f) == [t |-> "object", fields |-> f]
FormData(es) == [t |-> "FormData", entries |-> es]
Err(m) == [t |-> "Error", message |-> m]
List(xs) == [t |-> "array", items |-> xs]
EmptyFields == [k \in {} |-> Undef]

Chars(cs) == [t |-> "chars", chars |-> cs]

\* ToBoolean, as applied by `if (error)`
Truthy(v) ==
    CASE v.t = "undefined" -> FALSE
      [] v.t = "null" -> FALSE
      [] v.t = "number" -> v.n # 0
      [] v.t = "string" -> v.s # ""
      [] v.t = "chars" -> v.chars # <<>>
      [] OTHER -> TRUE

\* Includes, had the sentinel been looked for at the start of the message only
IncludesAtStart(s, sub) == Len(s) >= Len(sub) /\ SubSeq(s, 1, Len(sub)) = sub

\* String.prototype.includes on character sequences
Includes(s, sub) ==
    \E i \in 0..(Len(s) - Len(sub)) : SubSeq(s, i + 1, i + Len(sub)) = sub

\* the literal "NEXT_REDIRECT"
Sentinel == <<"N", "E", "X", "T", "_", "R", "E", "D", "I", "R", "E", "C", "T">>

\* the TypeError the runtime raises for error.message.includes when
\* error.message is undefined
TypeErrorIncludes == [t |-> "TypeError", message |-> <<"i", "n", "c", "l", "u", "d", "e", "s">>]
\* the TypeError the runtime raises when a property of undefined is read
TypeErrorProperty == [t |-> "TypeError", message |-> <<"p", "r", "o", "p">>]

\* error.message : the property read on a thrown value that is not nullish
MessageOf(e) ==
    IF e.t \in {"Error", "TypeError"} THEN Chars(e.message)
    ELSE IF e.t = "object" /\ "message" \in DOMAIN e.fields THEN e.fields["message"]
    ELSE Undef

(***************************************************************************)
(* The collaborators' values the model draws from.                         *)
(***************************************************************************)
Boom == <<"b", "o", "o", "m">>
User1 == Obj([k \in {"id"} |-> Str("1")])
User2 == Obj([k \in {"id"} |-> Str("2")])
Users == {User1, User2}

\* a zod object schema: field -> required type and the validator's message
SchemaName == [f \in {"name"} |-> [type |-> "string", message |-> "Requires a string"]]
SchemaNameAge ==
    [f \in {"name", "age"} |->
        IF f = "name" THEN [type |-> "string", message |-> "Requires a string"]
        ELSE [type |-> "number", message |-> "Requires a number"]]
Schemas == {SchemaName, SchemaNameAge}

\* the handles defineValidatedAction can define
Configs ==
    [type : {"form", "object"}, schema : Schemas, auth : BOOLEAN, onError : BOOLEAN]
    \cup [type : {"null"}, schema : {Undef}, auth : BOOLEAN, onError : BOOLEAN]

\* FormData.append(key, value): the value is stored as a string
FormEntries == {<<"name", Str("John")>>, <<"name", Str("Jane")>>, <<"age", Str("42")>>}
SeqsUpTo(S, n) == UNION {[1..k -> S] : k \in 0..n}
FormDatas == {FormData(es) : es \in SeqsUpTo(FormEntries, MaxEntries)}
Objects ==
    { Obj([k \in {"name"} |-> Str("John")]),
      Obj([k \in {"name", "age"} |-> IF k = "name" THEN Str("John") ELSE Num(42)]),
      Obj([k \in {"name", "age"} |-> IF k = "name" THEN Str("John") ELSE Str("42")]),
      Obj([k \in {"age"} |-> Num(42)]) }
\* what a caller can pass to the handle at run time
Inputs == FormDatas \cup Objects \cup {Undef}

\* values a handler, a resolver or an observer can raise
Failures ==
    { Err(Boom), Err(Sentinel), Err(<<"x">> \o Sentinel \o <<"y">>),
      Err(SubSeq(Sentinel, 1, Len(Sentinel) - 1)), Err(<<>>),
      Obj([k \in {"message"} |-> Chars(Sentinel)]),
      Undef, Null, Num(0), Str(""), Str("oops"), Obj(EmptyFields) }

\* what the observer does when it is called
OnErrorBehaviours ==
    {[k |-> "returns", v |-> Undef], [k |-> "throws", v |-> Err(<<"o", "b", "s">>)],
     [k |-> "async", v |-> Undef]}

\* what a call of the handler does before it returns: it raises, or it
\* returns a pending promise
SyncBehaviours(failures) ==
    {[k |-> "promise", v |-> Undef]} \cup {[k |-> "throws", v |-> e] : e \in failures}

\* values a handler fulfils its promise with, whatever its arguments
Outputs == {Str("value"), Num(0), Undef}

\* values a computation given to tryCatch returns or fulfils with
Values == {Str("value"), Num(42), Num(0), Str(""), Undef, Null, Obj(EmptyFields), List(<<>>)}

\* what the call of tryCatch's input does: the function returns or raises,
\* or the input is no function at all
Computations ==
    {[k |-> "returns", v |-> v] : v \in Values}
    \cup {[k |-> "throws", v |-> e] : e \in Failures}
    \cup {[k |-> "uncallable", v |-> Undef]}

(***************************************************************************)
(* Pure functions of the source.                                           *)
(***************************************************************************)
\* FormDataToObject, had numeric strings been coerced to numbers
RECURSIVE FormDataToObjectCoercing(_)
FormDataToObjectCoercing(entries) ==
    IF entries = <<>> THEN EmptyFields
    ELSE LET n == Len(entries)
             before == FormDataToObjectCoercing(SubSeq(entries, 1, n - 1))
             key == entries[n][1]
             value == IF entries[n][2] = Str("42") THEN Num(42) ELSE entries[n][2]
         IN [k \in (DOMAIN before) \cup {key} |-> IF k = key THEN value ELSE before[k]]

\* FormDataToObject, had a key kept the value of its first entry
RECURSIVE FormDataToObjectFirstWins(_)
FormDataToObjectFirstWins(entries) ==
    IF entries = <<>> THEN EmptyFields
    ELSE LET n == Len(entries)
             before == FormDataToObjectFirstWins(SubSeq(entries, 1, n - 1))
             key == entries[n][1]
             value == entries[n][2]
         IN [k \in (DOMAIN before) \cup {key} |->
                IF k \in DOMAIN before THEN before[k] ELSE value]

\* input.forEach((value, key) => { formDataInput[key] = value; })
RECURSIVE FormDataToObject(_)
FormDataToObject(entries) ==
    IF entries = <<>> THEN EmptyFields
    ELSE LET n == Len(entries)
             before == FormDataToObject(SubSeq(entries, 1, n - 1))
             key == entries[n][1]
             value == entries[n][2]
         IN [k \in (DOMAIN before) \cup {key} |-> IF k = key THEN value ELSE before[k]]

\* input[field] as the object schema reads it
Prop(input, f) ==
    IF input.t = "object" /\ f \in DOMAIN input.fields THEN input.fields[f] ELSE Undef

\* schema.safeParse(input), with parsedInput.error.flatten().fieldErrors
\* already taken on failure. Unknown keys are stripped from the data.
SafeParse(schema, input) ==
    IF input.t \notin {"object", "FormData"}
    THEN [success |-> FALSE, data |-> Undef, fieldErrors |-> Obj(EmptyFields)]
    ELSE LET bad == {f \in DOMAIN schema : Prop(input, f).t # schema[f].type}
         IN IF bad = {}
            THEN [success |-> TRUE,
                  data |-> Obj([f \in DOMAIN schema |-> Prop(input, f)]),
                  fieldErrors |-> Undef]
            ELSE [success |-> FALSE, data |-> Undef,
                  fieldErrors |-> Obj([f \in bad |-> List(<<schema[f].message>>)])]

\* a settled promise
Fulfilled(v) == [k |-> "fulfilled", v |-> v]
Rejected(e) == [k |-> "rejected", v |-> e]
Pending == [k |-> "pending", v |-> Undef]
NoPromise == [k |-> "none", v |-> Undef]

\* how a promise given to tryCatch settles
Settlements == {Fulfilled(v) : v \in Values} \cup {Rejected(e) : e \in Failures}

\* TryCatch, had the rejection's reason been kept in the result slot as well
TryCatchInBothSlots(p) ==
    IF p.k = "fulfilled" THEN [result |-> p.v, error |-> Null]
    ELSE [result |-> p.v, error |-> p.v]

\* TryCatch, had success been told by the truthiness of the value
TryCatchOnTruthiness(p) ==
    IF p.k = "fulfilled" /\ Truthy(p.v) THEN [result |-> p.v, error |-> Null]
    ELSE [result |-> Null, error |-> p.v]

\* tryCatch(promise): input.then(result => ({result, error: null}))
\*                         .catch(error => ({result: null, error}))
TryCatch(p) ==
    IF p.k = "fulfilled" THEN [result |-> p.v, error |-> Null]
    ELSE [result |-> Null, error |-> p.v]

\* tryCatch(promise): how the promise it returns settles once the input
\* promise has settled as p
TryCatchAsync(p) == Fulfilled(TryCatch(p))

\* the TypeError the runtime raises when a value that is not a function is called
TypeErrorNotFunction == [t |-> "TypeError", message |-> <<"c", "a", "l", "l">>]

\* a completed synchronous call
Returned(v) == [k |-> "returned", v |-> v]
Raised(e) == [k |-> "raised", v |-> e]

\* TryCatchSync, had the catch clause trapped Error instances only
TryCatchSyncErrorsOnly(b) ==
    IF b.k = "returns" THEN Returned([result |-> b.v, error |-> Null])
    ELSE IF b.k = "throws"
    THEN IF b.v.t = "Error" THEN Returned([result |-> Null, error |-> b.v]) ELSE Raised(b.v)
    ELSE Returned([result |-> Null, error |-> TypeErrorNotFunction])

\* tryCatch(input) with an input that is no promise: `input()` inside the try
\* block; b is what the call of input does
TryCatchSync(b) ==
    IF b.k = "returns" THEN Returned([result |-> b.v, error |-> Null])
    ELSE IF b.k = "throws" THEN Returned([result |-> Null, error |-> b.v])
    ELSE Returned([result |-> Null, error |-> TypeErrorNotFunction])

\* the ActionFunctionResult objects, read property by property
ActionError(fe, msg) == [t |-> "ActionError", fieldErrors |-> fe, message |-> msg]
ActionResult(res, err) == [result |-> res, error |-> err]

\* HandleActionResponse, had a raising onError been answered by raising the
\* handler's failure again
HandleActionResponseRethrowing(res, error, onError, ob) ==
    IF Truthy(error)
    THEN LET msg == MessageOf(error)
         IN IF msg.t # "chars"
            THEN [k |-> "throw", v |-> TypeErrorIncludes,
                  onErrorArgs |-> <<>>, onErrorThrew |-> FALSE]
            ELSE IF Includes(msg.chars, Sentinel)
            THEN [k |-> "throw", v |-> error,
                  onErrorArgs |-> <<>>, onErrorThrew |-> FALSE]
            ELSE IF onError /\ ob.k = "throws"
            THEN [k |-> "throw", v |-> error,
                  onErrorArgs |-> <<error>>, onErrorThrew |-> TRUE]
            ELSE [k |-> "return",
                  v |-> ActionResult(Undef, ActionError(Undef, msg)),
                  onErrorArgs |-> IF onError THEN <<error>> ELSE <<>>,
                  onErrorThrew |-> FALSE]
    ELSE [k |-> "return", v |-> ActionResult(res, Undef),
          onErrorArgs |-> <<>>, onErrorThrew |-> FALSE]

\* HandleActionResponse, had the call of onError been guarded by a catch
HandleActionResponseGuarded(res, error, onError, ob) ==
    IF Truthy(error)
    THEN LET msg == MessageOf(error)
         IN IF msg.t # "chars"
            THEN [k |-> "throw", v |-> TypeErrorIncludes,
                  onErrorArgs |-> <<>>, onErrorThrew |-> FALSE]
            ELSE IF Includes(msg.chars, Sentinel)
            THEN [k |-> "throw", v |-> error,
                  onErrorArgs |-> <<>>, onErrorThrew |-> FALSE]
            ELSE [k |-> "return",
                  v |-> ActionResult(Undef, ActionError(Undef, msg)),
                  onErrorArgs |-> IF onError THEN <<error>> ELSE <<>>,
                  onErrorThrew |-> onError /\ ob.k = "throws"]
    ELSE [k |-> "return", v |-> ActionResult(res, Undef),
          onErrorArgs |-> <<>>, onErrorThrew |-> FALSE]

\* handleActionResponse(res, error, onError); ob is what onError does if called.
\* Yields the returned value or the raised failure, with onError's arguments
\* and whether onError raised.
HandleActionResponse(res, error, onError, ob) ==
    IF Truthy(error)
    THEN LET msg == MessageOf(error)
         IN IF msg.t # "chars"
            THEN [k |-> "throw", v |-> TypeErrorIncludes,
                  onErrorArgs |-> <<>>, onErrorThrew |-> FALSE]
            ELSE IF Includes(msg.chars, Sentinel)
            THEN [k |-> "throw", v |-> error,
                  onErrorArgs |-> <<>>, onErrorThrew |-> FALSE]
            ELSE IF onError /\ ob.k = "throws"
            THEN [k |-> "throw", v |-> ob.v,
                  onErrorArgs |-> <<error>>, onErrorThrew |-> TRUE]
            ELSE [k |-> "return",
                  v |-> ActionResult(Undef, ActionError(Undef, msg)),
                  onErrorArgs |-> IF onError THEN <<error>> ELSE <<>>,
                  onErrorThrew |-> FALSE]
    ELSE [k |-> "return", v |-> ActionResult(res, Undef),
          onErrorArgs |-> <<>>, onErrorThrew |-> FALSE]

(***************************************************************************)
(* The environment of the handle: who calls it, with what, and what the    *)
(* collaborators raise. Either one caller with every input and failure, or *)
(* two callers whose invocations interleave, with a few of each.           *)
(***************************************************************************)
Envs ==
    { [callers |-> {"c1"}, inputs |-> Inputs, failures |-> Failures, users |-> Users],
      [callers |-> Callers,
       inputs |-> {FormData(<< <<"name", Str("John")>> >>),
                   Obj([k \in {"name"} |-> Str("John")]), Undef},
       failures |-> {Err(Boom), Err(Sentinel)},
       users |-> {User1}] }

(***************************************************************************)
(* One invocation of the handle: the frame of the async closure, with the  *)
(* calls it has made on its collaborators.                                 *)
(***************************************************************************)
Idle ==
    [pc |-> "idle", input |-> Undef, path |-> "none",
     safeParseArgs |-> <<>>, parsedInput |-> Undef,
     authCalls |-> 0, authOutcome |-> NoPromise,
     actionArgs |-> <<>>, actionOutcome |-> NoPromise,
     onErrorArgs |-> <<>>, onErrorThrew |-> FALSE, onErrorWork |-> NoPromise,
     settled |-> NoPromise]

\* the asynchronous function returns v / raises e: its promise settles
Return(r, v) == [r EXCEPT !.pc = "done", !.settled = Fulfilled(v)]
Throw(r, e) == [r EXCEPT !.pc = "done", !.settled = Rejected(e)]

\* tryCatch(action(...args)): the call is evaluated first; a handler that
\* raises while it is called (one of sbs) raises out of the enclosing
\* function, otherwise the frame awaits the promise it returned.
\* The frames the call can lead to.
CallAction(r, args, sbs) ==
    LET called == [r EXCEPT !.actionArgs = Append(@, args)]
    IN { IF sb.k = "throws"
         THEN Throw([called EXCEPT !.actionOutcome = [k |-> "threw", v |-> sb.v]], sb.v)
         ELSE [called EXCEPT !.pc = "action", !.actionOutcome = Pending] : sb \in sbs }

\* const user = await auth()
CallAuth(r) == {[r EXCEPT !.pc = "auth", !.authCalls = @ + 1, !.authOutcome = Pending]}

\* executeNoInput up to its first await
ExecuteNoInput(r, auth, sbs) ==
    LET f == [r EXCEPT !.path = "executeNoInput"]
    IN IF auth THEN CallAuth(f) ELSE CallAction(f, <<Undef>>, sbs)

\* Execute, had the field-error result carried a message as well
ExecuteWithMessage(r, input, schema, auth, sbs) ==
    LET parsedInput == SafeParse(schema, input)
        f == [r EXCEPT !.path = "execute", !.safeParseArgs = Append(@, input),
                       !.parsedInput = parsedInput]
    IN IF parsedInput.success
       THEN IF auth THEN CallAuth(f) ELSE CallAction(f, <<parsedInput.data>>, sbs)
       ELSE {Return(f, ActionResult(Undef,
                ActionError(parsedInput.fieldErrors, Chars(<<"i", "n", "v", "a", "l", "i", "d">>))))}

\* execute up to its first await, or to its return of the field errors
Execute(r, input, schema, auth, sbs) ==
    LET parsedInput == SafeParse(schema, input)
        f == [r EXCEPT !.path = "execute", !.safeParseArgs = Append(@, input),
                       !.parsedInput = parsedInput]
    IN IF parsedInput.success
       THEN IF auth THEN CallAuth(f) ELSE CallAction(f, <<parsedInput.data>>, sbs)
       ELSE {Return(f, ActionResult(Undef, ActionError(parsedInput.fieldErrors, Undef)))}

\* the closure defineValidatedAction returns, up to its first await
Dispatch(cfg, input, sbs) ==
    LET r == [Idle EXCEPT !.input = input]
    IN IF cfg.type = "form" /\ input.t = "FormData"
       THEN Execute(r, Obj(FormDataToObject(input.entries)), cfg.schema, cfg.auth, sbs)
       ELSE IF cfg.type = "object"
       THEN Execute(r, input, cfg.schema, cfg.auth, sbs)
       ELSE ExecuteNoInput(r, cfg.auth, sbs)

\* AfterAuth, had auth() been awaited through tryCatch and its failure folded
AfterAuthTrapped(r, ao, sbs) ==
    LET f == [r EXCEPT !.authOutcome = ao]
    IN IF ao.k = "rejected"
       THEN {Return(f, ActionResult(Undef, ActionError(Undef, MessageOf(ao.v))))}
       ELSE IF r.path = "execute"
       THEN CallAction(f, <<r.parsedInput.data, ao.v>>, sbs)
       ELSE CallAction(f, <<ao.v>>, sbs)

\* AfterAuth, had a failed auth() been called again until it succeeds
AfterAuthRetrying(r, ao, sbs) ==
    LET f == [r EXCEPT !.authOutcome = ao]
    IN IF ao.k = "rejected" THEN {[f EXCEPT !.pc = "auth"]}
       ELSE IF r.path = "execute"
       THEN CallAction(f, <<r.parsedInput.data, ao.v>>, sbs)
       ELSE CallAction(f, <<ao.v>>, sbs)

\* after `await auth()`: the resolver's failure raises out of the function;
\* its user is passed to the handler
AfterAuth(r, ao, sbs) ==
    LET f == [r EXCEPT !.authOutcome = ao]
    IN IF ao.k = "rejected" THEN {Throw(f, ao.v)}
       ELSE IF r.path = "execute"
       THEN CallAction(f, <<r.parsedInput.data, ao.v>>, sbs)
       ELSE CallAction(f, <<ao.v>>, sbs)

\* AfterAction, had the handle kept a flag so that onError is notified of the
\* first failure only
AfterActionNotifyingOnce(r, p, onError, ob) ==
    LET out == TryCatch(p)
        notified == \E c \in Callers : inv[c].onErrorArgs # <<>>
        resp == HandleActionResponse(out.result, out.error, onError /\ ~notified, ob)
        f == [r EXCEPT !.actionOutcome = p, !.onErrorArgs = @ \o resp.onErrorArgs,
                       !.onErrorThrew = resp.onErrorThrew]
    IN IF resp.k = "throw" THEN Throw(f, resp.v) ELSE Return(f, resp.v)

\* the promise an asynchronous onError returned, when it was called
OnErrorWork(resp, ob) ==
    IF resp.onErrorArgs # <<>> /\ ob.k = "async" THEN Pending ELSE NoPromise

\* AfterAction, had the promise onError returned been awaited before the return
AfterActionAwaitingObserver(r, p, onError, ob) ==
    LET out == TryCatch(p)
        resp == HandleActionResponse(out.result, out.error, onError, ob)
        f == [r EXCEPT !.actionOutcome = p, !.onErrorArgs = @ \o resp.onErrorArgs,
                       !.onErrorThrew = resp.onErrorThrew,
                       !.onErrorWork = OnErrorWork(resp, ob)]
    IN IF resp.k = "throw" THEN Throw(f, resp.v)
       ELSE IF f.onErrorWork = Pending THEN [f EXCEPT !.pc = "observer"]
       ELSE Return(f, resp.v)

\* after `await tryCatch(...)`: handleActionResponse(result, error, onError);
\* what onError returned is dropped, a promise included
AfterAction(r, p, onError, ob) ==
    LET out == TryCatch(p)
        resp == HandleActionResponse(out.result, out.error, onError, ob)
        f == [r EXCEPT !.actionOutcome = p, !.onErrorArgs = @ \o resp.onErrorArgs,
                       !.onErrorThrew = resp.onErrorThrew,
                       !.onErrorWork = OnErrorWork(resp, ob)]
    IN IF resp.k = "throw" THEN Throw(f, resp.v) ELSE Return(f, resp.v)

\* how the promise of an asynchronous onError can settle
ObserverSettlements == {Fulfilled(Undef), Rejected(Err(<<"o", "b", "s">>))}

\* the handler `async (input) => input.name`: how its promise settles
EchoName(args) ==
    IF args[1].t \in {"undefined", "null"} THEN Rejected(TypeErrorProperty)
    ELSE Fulfilled(Prop(args[1], "name"))

\* how the promise of a handler called with args can settle
ActionSettlements(args, failures) ==
    {Fulfilled(v) : v \in Outputs} \cup {EchoName(args)} \cup {Rejected(e) : e \in failures}

\* how the promise of the resolver can settle
AuthSettlements(users) ==
    {Fulfilled(u) : u \in users} \cup {Rejected(e) : e \in {Err(Boom), Err(Sentinel)}}

(***************************************************************************)
(* The state machine.                                                      *)
(***************************************************************************)
\* a data access function between two calls; auth tells whether it was
\* defined with a resolver
NoDal ==
    [auth |-> FALSE, pc |-> "idle", params |-> <<>>,
     authCalls |-> 0, authOutcome |-> NoPromise,
     funcArgs |-> <<>>, funcOutcome |-> NoPromise, settled |-> NoPromise]

\* a literal set with the last call made on it: none yet
NoLiteral == [arr |-> <<>>, op |-> "none", arg |-> Undef, outcome |-> NoPromise]

\* no call of tryCatch made on its own
NoTryCatch == [pc |-> "idle", log |-> <<>>]

Init ==
    /\ config \in Configs
    /\ env \in Envs
    /\ inv = [c \in Callers |-> Idle]
    /\ calls = 0
    /\ tc = NoTryCatch
    /\ dal = NoDal
    /\ lit = NoLiteral

\* a caller invokes the handle
Invoke(c) ==
    /\ c \in env.callers
    /\ inv[c].pc = "idle"
    /\ calls < MaxCalls
    /\ \E input \in env.inputs :
          \E r \in Dispatch(config, input, SyncBehaviours(env.failures)) :
             inv' = [inv EXCEPT ![c] = r]
    /\ calls' = calls + 1
    /\ UNCHANGED <<config, env, tc, dal, lit>>

\* the promise of auth() settles and the invocation resumes
SettleAuth(c) ==
    /\ inv[c].pc = "auth"
    /\ \E ao \in AuthSettlements(env.users) :
          \E r \in AfterAuth(inv[c], ao, SyncBehaviours(env.failures)) :
             inv' = [inv EXCEPT ![c] = r]
    /\ UNCHANGED <<config, env, calls, tc, dal, lit>>

\* the promise of the handler settles and the invocation resumes
SettleAction(c) ==
    /\ inv[c].pc = "action"
    /\ \E p \in ActionSettlements(inv[c].actionArgs[Len(inv[c].actionArgs)], env.failures),
          ob \in OnErrorBehaviours :
          inv' = [inv EXCEPT ![c] = AfterAction(inv[c], p, config.onError, ob)]
    /\ UNCHANGED <<config, env, calls, tc, dal, lit>>

\* the caller's `await definedAction(...)` completes: it has the result or
\* the failure, and the invocation's frame is gone
Await(c) ==
    /\ inv[c].pc = "done"
    /\ inv' = [inv EXCEPT ![c] = Idle]
    /\ UNCHANGED <<config, env, calls, tc, dal, lit>>

\* the promise an asynchronous onError returned settles; nothing awaits it
SettleObserver(c) ==
    /\ inv[c].onErrorWork = Pending
    /\ \E w \in ObserverSettlements : inv' = [inv EXCEPT ![c].onErrorWork = w]
    /\ UNCHANGED <<config, env, calls, tc, dal, lit>>

Next ==
    \E c \in Callers :
       Invoke(c) \/ SettleAuth(c) \/ SettleAction(c) \/ SettleObserver(c) \/ Await(c)

Spec == Init /\ [][Next]_vars

\* the promises of auth() and of the handler, once pending, eventually settle
\* and the runtime resumes the function that awaits them
Fairness == \A c \in Callers : WF_vars(SettleAuth(c)) /\ WF_vars(SettleAction(c))

FairSpec == Spec /\ Fairness

(***************************************************************************)
(* tryCatch on its own: a caller applies it to functions and to promises,  *)
(* one call after the other; log keeps every call with its outcome.        *)
(***************************************************************************)
\* the dispatcher, not in use
NoHandle == [type |-> "null", schema |-> Undef, auth |-> FALSE, onError |-> FALSE]
NoEnv == [callers |-> {}, inputs |-> {}, failures |-> {}, users |-> {}]

InitTryCatch ==
    /\ tc = NoTryCatch
    /\ config = NoHandle
    /\ env = NoEnv
    /\ inv = [c \in Callers |-> Idle]
    /\ calls = 0
    /\ dal = NoDal
    /\ lit = NoLiteral

\* tryCatch(() => ...): the call completes at once
TryCatchFunction ==
    /\ tc.pc = "idle"
    /\ Len(tc.log) < MaxTryCatchCalls
    /\ \E b \in Computations :
          tc' = [tc EXCEPT !.log = Append(@, [form |-> "function", did |-> b,
                                              outcome |-> TryCatchSync(b)])]
    /\ UNCHANGED <<config, env, inv, calls, dal, lit>>

\* tryCatch(promise): the call returns a promise, awaited by the caller
TryCatchPromise ==
    /\ tc.pc = "idle"
    /\ Len(tc.log) < MaxTryCatchCalls
    /\ tc' = [tc EXCEPT !.pc = "pending"]
    /\ UNCHANGED <<config, env, inv, calls, dal, lit>>

\* the input promise settles, and with it the promise tryCatch returned
TryCatchSettle ==
    /\ tc.pc = "pending"
    /\ \E p \in Settlements :
          tc' = [pc |-> "idle",
                 log |-> Append(tc.log, [form |-> "promise", did |-> p,
                                         outcome |-> TryCatchAsync(p)])]
    /\ UNCHANGED <<config, env, inv, calls, dal, lit>>

NextTryCatch == TryCatchFunction \/ TryCatchPromise \/ TryCatchSettle

SpecTryCatch == InitTryCatch /\ [][NextTryCatch]_vars

(***************************************************************************)
(* defineDataAccessFunction: one data access function is defined in the    *)
(* initial state, with or without a resolver; a caller calls it and awaits *)
(* it, one call after the other.                                           *)
(***************************************************************************)
\* the parameter lists a caller passes
Params == SeqsUpTo({Str("id"), Num(1)}, MaxParams)

\* handleFunctionResult(res)
HandleFunctionResult(res) ==
    IF Truthy(res.error) THEN [result |-> Null, error |-> res.error]
    ELSE [result |-> res.result, error |-> Null]

\* tryCatch(func(...args)): the call is evaluated first; a func that raises
\* while it is called (one of sbs) raises out of the enclosing function,
\* otherwise the frame awaits the promise it returned
DalCallFunc(r, args, sbs) ==
    LET called == [r EXCEPT !.funcArgs = Append(@, args)]
    IN { IF sb.k = "throws"
         THEN [called EXCEPT !.pc = "done", !.funcOutcome = [k |-> "threw", v |-> sb.v],
                             !.settled = Rejected(sb.v)]
         ELSE [called EXCEPT !.pc = "func", !.funcOutcome = Pending] : sb \in sbs }

\* the function defineDataAccessFunction returns, up to its first await
DalCall(r, params, sbs) ==
    LET f == [NoDal EXCEPT !.auth = r.auth, !.params = params]
    IN IF r.auth
       THEN {[f EXCEPT !.pc = "auth", !.authCalls = @ + 1, !.authOutcome = Pending]}
       ELSE DalCallFunc(f, params, sbs)

\* DalAfterAuth, had the user been passed after the parameters
DalAfterAuthUserLast(r, ao, sbs) ==
    LET f == [r EXCEPT !.authOutcome = ao]
    IN IF ao.k = "rejected"
       THEN {[f EXCEPT !.pc = "done", !.settled = Rejected(ao.v)]}
       ELSE DalCallFunc(f, r.params \o <<ao.v>>, sbs)

\* after `await auth()`: the resolver's failure raises out of the function;
\* its user is passed to func before the parameters
DalAfterAuth(r, ao, sbs) ==
    LET f == [r EXCEPT !.authOutcome = ao]
    IN IF ao.k = "rejected"
       THEN {[f EXCEPT !.pc = "done", !.settled = Rejected(ao.v)]}
       ELSE DalCallFunc(f, <<ao.v>> \o r.params, sbs)

\* after `await tryCatch(...)`: return handleFunctionResult(result)
DalAfterFunc(r, p) ==
    [r EXCEPT !.pc = "done", !.funcOutcome = p,
              !.settled = Fulfilled(HandleFunctionResult(TryCatch(p)))]

InitDal ==
    /\ dal \in {[NoDal EXCEPT !.auth = a] : a \in BOOLEAN}
    /\ config = NoHandle
    /\ env = NoEnv
    /\ inv = [c \in Callers |-> Idle]
    /\ calls = 0
    /\ tc = NoTryCatch
    /\ lit = NoLiteral

\* the caller calls the data access function
DalInvoke ==
    /\ dal.pc = "idle"
    /\ \E params \in Params : \E r \in DalCall(dal, params, SyncBehaviours(Failures)) :
          dal' = r
    /\ UNCHANGED <<config, env, inv, calls, tc, lit>>

\* the promise of auth() settles and the call resumes
DalSettleAuth ==
    /\ dal.pc = "auth"
    /\ \E ao \in AuthSettlements(Users) :
          \E r \in DalAfterAuth(dal, ao, SyncBehaviours(Failures)) : dal' = r
    /\ UNCHANGED <<config, env, inv, calls, tc, lit>>

\* the promise of func settles and the call resumes
DalSettleFunc ==
    /\ dal.pc = "func"
    /\ \E p \in Settlements : dal' = DalAfterFunc(dal, p)
    /\ UNCHANGED <<config, env, inv, calls, tc, lit>>

\* the caller's await completes
DalAwait ==
    /\ dal.pc = "done"
    /\ dal' = [NoDal EXCEPT !.auth = dal.auth]
    /\ UNCHANGED <<config, env, inv, calls, tc, lit>>

NextDal == DalInvoke \/ DalSettleAuth \/ DalSettleFunc \/ DalAwait

SpecDal == InitDal /\ [][NextDal]_vars

(***************************************************************************)
(* safeStringLiteral: a literal set is made in the initial state; a caller *)
(* applies isLiteral, toLiteral and toLiterals to it. Strings are compared *)
(* as a whole, so they are atoms here.                                     *)
(***************************************************************************)
\* the strings literal sets are made of and asked about
Strings == {"red", "RED", "blue", ""}

\* new Error(`Invalid value: ${value}`)
InvalidValue(value) == Err(<<"Invalid value: ", value>>)

\* IsLiteral, had the strings been compared without regard to case
IsLiteralIgnoringCase(arr, value) ==
    \E i \in 1..Len(arr) : arr[i] = value \/ {arr[i], value} = {"red", "RED"}

\* isLiteral(value): arr.includes(value)
IsLiteral(arr, value) == \E i \in 1..Len(arr) : arr[i] = value

\* toLiteral(value)
ToLiteral(arr, value) ==
    IF ~IsLiteral(arr, value) THEN Raised(InvalidValue(value)) ELSE Returned(value)

\* toLiterals(values): values.map(toLiteral), element by element from the
\* first; the first call that raises ends the map
RECURSIVE ToLiterals(_, _)
ToLiterals(arr, values) ==
    IF values = <<>> THEN Returned(<<>>)
    ELSE LET first == ToLiteral(arr, Head(values))
         IN IF first.k = "raised" THEN first
            ELSE LET rest == ToLiterals(arr, Tail(values))
                 IN IF rest.k = "raised" THEN rest
                    ELSE Returned(<<first.v>> \o rest.v)

InitLiteral ==
    /\ lit \in {[NoLiteral EXCEPT !.arr = arr] : arr \in SeqsUpTo(Strings, MaxLiterals)}
    /\ config = NoHandle
    /\ env = NoEnv
    /\ inv = [c \in Callers |-> Idle]
    /\ calls = 0
    /\ tc = NoTryCatch
    /\ dal = NoDal

\* Literals.isLiteral(value)
IsLiteralCall ==
    /\ \E value \in Strings :
          lit' = [lit EXCEPT !.op = "isLiteral", !.arg = value,
                             !.outcome = Returned(IsLiteral(lit.arr, value))]
    /\ UNCHANGED <<config, env, inv, calls, tc, dal>>

\* Literals.toLiteral(value)
ToLiteralCall ==
    /\ \E value \in Strings :
          lit' = [lit EXCEPT !.op = "toLiteral", !.arg = value,
                             !.outcome = ToLiteral(lit.arr, value)]
    /\ UNCHANGED <<config, env, inv, calls, tc, dal>>

\* Literals.toLiterals(values)
ToLiteralsCall ==
    /\ \E values \in SeqsUpTo(Strings, MaxValues) :
          lit' = [lit EXCEPT !.op = "toLiterals", !.arg = values,
                             !.outcome = ToLiterals(lit.arr, values)]
    /\ UNCHANGED <<config, env, inv, calls, tc, dal>>

NextLiteral == IsLiteralCall \/ ToLiteralCall \/ ToLiteralsCall

SpecLiteral == InitLiteral /\ [][NextLiteral]_vars

(***************************************************************************)
(* Properties of the dispatcher.                                           *)
(***************************************************************************)
Started(c) == inv[c].pc # "idle"
Done(c) == inv[c].pc = "done"
Resolved(c) == Done(c) /\ inv[c].settled.k = "fulfilled"
RejectedWith(c, e) == Done(c) /\ inv[c].settled = Rejected(e)

\* the value the configured shape hands to validation for a per-call input
Normalized(input) ==
    IF config.type = "form" /\ input.t = "FormData"
    THEN Obj(FormDataToObject(input.entries)) ELSE input
SchemaRejects(input) == ~SafeParse(config.schema, Normalized(input)).success

\* the handler failed in this invocation, raising e while called or
\* rejecting its promise with e
HandlerFailed(c) == inv[c].actionOutcome.k \in {"threw", "rejected"}
HandlerFailure(c) == inv[c].actionOutcome.v
HasMessage(e) == MessageOf(e).t = "chars"
\* the message m holds the sentinel at some position
HoldsSentinel(m) ==
    \E i \in 1..Len(m) :
       \A j \in 1..Len(Sentinel) : i + j - 1 <= Len(m) /\ m[i + j - 1] = Sentinel[j]
IsNavigation(e) == HasMessage(e) /\ HoldsSentinel(MessageOf(e).chars)

\* C1: on a form-encoded or plain-object handle, an input the schema rejects
\* resolves to { error: { fieldErrors } } with result and message absent, and
\* neither the handler nor the principal resolver is invoked.
C1_RejectedInputShortCircuits ==
    \A c \in Callers :
       (Started(c) /\ config.type \in {"form", "object"} /\ SchemaRejects(inv[c].input))
       => /\ inv[c].actionArgs = <<>>
          /\ inv[c].authCalls = 0
          /\ Done(c)
          /\ inv[c].settled =
                Fulfilled(ActionResult(Undef,
                    ActionError(SafeParse(config.schema, Normalized(inv[c].input)).fieldErrors,
                                Undef)))

\* C2: when validation passes, principal resolution (if any) succeeds and the
\* handler returns V, the invocation resolves to exactly { result: V } with
\* error absent.
C2_HandlerValueIsResult ==
    \A c \in Callers :
       (Done(c) /\ inv[c].actionOutcome.k = "fulfilled")
       => inv[c].settled = Fulfilled(ActionResult(inv[c].actionOutcome.v, Undef))

C2_Witness ==
    \E c \in Callers :
       /\ Done(c) /\ config.type = "form" /\ config.auth
       /\ inv[c].path = "execute" /\ inv[c].parsedInput.success
       /\ inv[c].authOutcome.k = "fulfilled"
       /\ inv[c].actionOutcome = Fulfilled(Str("value"))
       /\ inv[c].settled = Fulfilled(ActionResult(Str("value"), Undef))

\* C3: a handler failure whose message lacks the navigation sentinel, with the
\* observer (if any) returning normally, resolves to { error: { message } }
\* with the failure's message verbatim, result and fieldErrors absent.
C3_HandlerFailureFolded ==
    \A c \in Callers :
       (Done(c) /\ HandlerFailed(c) /\ HasMessage(HandlerFailure(c))
          /\ ~IsNavigation(HandlerFailure(c)) /\ ~inv[c].onErrorThrew)
       => inv[c].settled =
             Fulfilled(ActionResult(Undef, ActionError(Undef, MessageOf(HandlerFailure(c)))))

\* C4: a handler failure whose message contains the navigation sentinel as a
\* substring makes the invocation reject with that very failure; it is not
\* folded into an ActionResult.
C4_NavigationReraised ==
    \A c \in Callers :
       (Done(c) /\ HandlerFailed(c) /\ IsNavigation(HandlerFailure(c)))
       => inv[c].settled = Rejected(HandlerFailure(c))

C4_Witness ==
    \E c \in Callers :
       /\ inv[c].actionOutcome = Rejected(Err(<<"x">> \o Sentinel \o <<"y">>))
       /\ RejectedWith(c, Err(<<"x">> \o Sentinel \o <<"y">>))

\* C5: a failure of the principal resolver (navigation signal or not) leaves
\* the invocation as a rejection with that failure; the handler and the
\* observer are not invoked; on the validating shapes validation succeeded
\* before the resolver was called.
C5_AuthFailurePropagates ==
    \A c \in Callers :
       /\ (inv[c].authCalls > 0 /\ inv[c].path = "execute") => inv[c].parsedInput.success
       /\ inv[c].authOutcome.k = "rejected"
          => /\ RejectedWith(c, inv[c].authOutcome.v)
             /\ inv[c].actionArgs = <<>>
             /\ inv[c].onErrorArgs = <<>>

C5_Witness ==
    \E c \in Callers :
       /\ config.type = "object" /\ config.onError
       /\ inv[c].authOutcome = Rejected(Err(Boom))
       /\ RejectedWith(c, Err(Boom))
       /\ inv[c].safeParseArgs # <<>>

\* a navigation signal occurred during principal resolution or handler execution
NavigationOccurred(c) ==
    \/ inv[c].authOutcome.k = "rejected" /\ IsNavigation(inv[c].authOutcome.v)
    \/ HandlerFailed(c) /\ IsNavigation(HandlerFailure(c))

\* C6 (as claimed, on the invocations whose principal resolution failed): the
\* invocation rejects if and only if a navigation signal occurred; a
\* non-navigation failure of principal resolution resolves to
\* { error: { message } } with result absent.
C6_RejectsIffNavigation ==
    \A c \in Callers :
       (Done(c) /\ inv[c].authOutcome.k = "rejected")
       => /\ inv[c].settled.k = "rejected" <=> NavigationOccurred(c)
          /\ ~IsNavigation(inv[c].authOutcome.v)
             => inv[c].settled =
                   Fulfilled(ActionResult(Undef,
                       ActionError(Undef, MessageOf(inv[c].authOutcome.v))))

\* a failure leaves the dispatcher untrapped
Escapes(c) ==
    \/ inv[c].authOutcome.k = "rejected"
    \/ inv[c].actionOutcome.k = "threw"
    \/ /\ inv[c].actionOutcome.k = "rejected"
       /\ Truthy(HandlerFailure(c))
       /\ (~HasMessage(HandlerFailure(c)) \/ IsNavigation(HandlerFailure(c)))
    \/ inv[c].onErrorThrew

\* C6 (amended): an invocation rejects if and only if principal resolution
\* failed (with any failure), the handler raised while it was called, the
\* handler's promise rejected with a truthy failure that carries the sentinel
\* in its message or carries no string message, or the observer raised; in
\* every other case it resolves to an ActionResult. A failure of principal
\* resolution, navigation or not, is the rejection's reason.
C6_RejectsIffFailureEscapes ==
    \A c \in Callers :
       Done(c)
       => /\ inv[c].settled.k \in {"fulfilled", "rejected"}
          /\ inv[c].settled.k = "rejected" <=> Escapes(c)
          /\ inv[c].settled.k = "fulfilled"
             => DOMAIN inv[c].settled.v = {"result", "error"}
          /\ inv[c].authOutcome.k = "rejected"
             => inv[c].settled = Rejected(inv[c].authOutcome.v)

C6_Witness ==
    \E c \in Callers :
       /\ config.type = "form" /\ inv[c].path = "execute"
       /\ inv[c].authOutcome = Rejected(Err(Boom))
       /\ RejectedWith(c, Err(Boom))

\* C7: in every returned ActionResult, result and error are never both
\* populated, and error holds at most one of fieldErrors and message.
C7_ResultShapeExclusive ==
    \A c \in Callers :
       Resolved(c)
       => LET v == inv[c].settled.v
          IN /\ ~(v.result # Undef /\ v.error # Undef)
             /\ v.error # Undef
                => ~(v.error.fieldErrors # Undef /\ v.error.message # Undef)

C7_Witness ==
    \E c \in Callers :
       /\ Resolved(c)
       /\ inv[c].settled.v.result = Undef
       /\ inv[c].settled.v.error # Undef
       /\ inv[c].settled.v.error.fieldErrors # Undef
       /\ inv[c].settled.v.error.message = Undef

\* C8: every call of the handler has the arguments the configuration fixes:
\* (validatedInput, principal) with a resolver, (validatedInput) without one,
\* and for the no-input shape (principal), or nothing (the explicit
\* `undefined` of the source counts as nothing); validatedInput is the
\* validator's parsed data, principal the value the resolver produced.
C8_HandlerArguments ==
    \A c \in Callers :
       \A i \in 1..Len(inv[c].actionArgs) :
          LET args == inv[c].actionArgs[i]
              parsed == SafeParse(config.schema, Normalized(inv[c].input))
          IN IF config.type = "null"
             THEN IF config.auth
                  THEN inv[c].authOutcome.k = "fulfilled" /\ args = <<inv[c].authOutcome.v>>
                  ELSE args \in {<<>>, <<Undef>>}
             ELSE /\ parsed.success
                  /\ IF config.auth
                     THEN /\ inv[c].authOutcome.k = "fulfilled"
                          /\ args = <<parsed.data, inv[c].authOutcome.v>>
                     ELSE args = <<parsed.data>>

\* C9: the shape tag alone decides the path: a form-encoded or plain-object
\* handle validates its input on every invocation, whatever it is called
\* with, and its handler never runs without a successful validation;
\* validation is skipped only on a no-input handle.
C9_ShapeTagDecidesPath ==
    \A c \in Callers :
       Started(c)
       => IF config.type = "null"
          THEN inv[c].safeParseArgs = <<>>
          ELSE /\ Len(inv[c].safeParseArgs) = 1
               /\ inv[c].actionArgs # <<>> => inv[c].parsedInput.success

\* the keys of a multi-map are distinct
DistinctKeys(es) == \A i, j \in 1..Len(es) : es[i][1] = es[j][1] => i = j

\* C10: a form-encoded handle invoked with a multi-map of distinct keys
\* validates the plain object holding exactly those entries, values
\* unchanged; so {name: "John"} with the string schema and an echoing handler
\* yields { result: "John" }, and a string entry for a field required as a
\* number yields the field-error result listing that field with the
\* validator's message.
C10_FormEntriesValidatedUnchanged ==
    \A c \in Callers :
       (Started(c) /\ config.type = "form" /\ inv[c].input.t = "FormData"
          /\ DistinctKeys(inv[c].input.entries))
       => LET es == inv[c].input.entries
          IN /\ Len(inv[c].safeParseArgs) = 1
             /\ inv[c].safeParseArgs[1].t = "object"
             /\ DOMAIN inv[c].safeParseArgs[1].fields = {es[i][1] : i \in 1..Len(es)}
             /\ \A i \in 1..Len(es) : inv[c].safeParseArgs[1].fields[es[i][1]] = es[i][2]
             /\ (/\ Done(c)
                 /\ es = << <<"name", Str("John")>> >>
                 /\ config.schema = SchemaName
                 /\ inv[c].actionArgs # <<>>
                 /\ inv[c].actionOutcome = EchoName(inv[c].actionArgs[1]))
                => inv[c].settled = Fulfilled(ActionResult(Str("John"), Undef))
             /\ \A i \in 1..Len(es) :
                   (es[i][1] \in DOMAIN config.schema /\ es[i][2].t = "string"
                      /\ config.schema[es[i][1]].type = "number")
                   => /\ Resolved(c)
                      /\ inv[c].settled.v.result = Undef
                      /\ inv[c].settled.v.error.message = Undef
                      /\ es[i][1] \in DOMAIN inv[c].settled.v.error.fieldErrors.fields
                      /\ inv[c].settled.v.error.fieldErrors.fields[es[i][1]]
                            = List(<<config.schema[es[i][1]].message>>)
                      /\ inv[c].actionArgs = <<>>

C10_Witness ==
    \E c \in Callers :
       /\ config.type = "form" /\ config.schema = SchemaNameAge
       /\ inv[c].input = FormData(<< <<"age", Str("42")>>, <<"name", Str("John")>> >>)
       /\ Resolved(c)
       /\ inv[c].settled.v.error.fieldErrors
             = Obj([f \in {"age"} |-> List(<<"Requires a number">>)])

\* C11: with a failure-observer configured, it is invoked exactly once, with
\* the trapped failure itself, in every invocation whose handler fails with a
\* non-navigation failure, and zero times in an invocation that ends in a
\* success result, a field-error result, a navigation re-raise or a failure of
\* principal resolution.
C11_ObserverOncePerHandlerFailure ==
    \A c \in Callers :
       (config.onError /\ Done(c))
       => IF HandlerFailed(c) /\ ~IsNavigation(HandlerFailure(c))
          THEN inv[c].onErrorArgs = <<HandlerFailure(c)>>
          ELSE inv[c].onErrorArgs = <<>>

\* the failure the observer raises when it is called
ObserverFailure == Err(<<"o", "b", "s">>)

\* C12: when the configured failure-observer raises while it is invoked with a
\* non-navigation handler failure, the invocation rejects with the observer's
\* failure and returns no ActionResult.
C12_ObserverFailurePropagates ==
    \A c \in Callers :
       (Done(c) /\ inv[c].onErrorThrew)
       => /\ config.onError
          /\ HandlerFailed(c) /\ ~IsNavigation(HandlerFailure(c))
          /\ inv[c].onErrorArgs = <<HandlerFailure(c)>>
          /\ inv[c].settled = Rejected(ObserverFailure)

C12_Witness ==
    \E c \in Callers :
       /\ config.onError
       /\ inv[c].actionOutcome = Rejected(Err(Boom))
       /\ inv[c].onErrorArgs = <<Err(Boom)>>
       /\ inv[c].onErrorThrew
       /\ RejectedWith(c, ObserverFailure)

\* the calls of tryCatch that produced an Outcome
Outcomes == {i \in 1..Len(tc.log) : tc.log[i].outcome.k \in {"returned", "fulfilled"}}
\* the value the computation returned, raised, fulfilled with or rejected with
Delivered(i) == tc.log[i].did.v

\* C13 (as claimed): every Outcome tryCatch produces, returned by the
\* synchronous form or resolved by the asynchronous one, has exactly one of
\* result and error non-null, whatever the computation returns or raises.
C13_ExactlyOneSlotPopulated ==
    \A i \in Outcomes :
       LET o == tc.log[i].outcome.v
       IN (o.result # Null) # (o.error # Null)

\* C13 (amended): result and error are never both non-null; they are both
\* null exactly when the computation returned or fulfilled with null, or
\* raised or rejected with null.
C13_NeverBothSlotsPopulated ==
    \A i \in Outcomes :
       LET o == tc.log[i].outcome.v
       IN /\ ~(o.result # Null /\ o.error # Null)
          /\ (o.result = Null /\ o.error = Null)
             <=> (tc.log[i].did.k # "uncallable" /\ Delivered(i) = Null)

C13_Witness ==
    \E i, j \in Outcomes :
       /\ tc.log[i].form = "function" /\ tc.log[i].did = [k |-> "returns", v |-> Null]
       /\ tc.log[i].outcome.v = [result |-> Null, error |-> Null]
       /\ tc.log[j].form = "promise" /\ tc.log[j].did = Rejected(Err(Boom))
       /\ tc.log[j].outcome.v = [result |-> Null, error |-> Err(Boom)]

\* C14: tryCatch never raises and the promise it returns never rejects. Given
\* a function it returns { result: v, error: null } when the function
\* returns v, falsy or not, and { result: null, error: e } when it raises e;
\* given a promise it resolves to { result: v, error: null } when the promise
\* fulfils with v and to { result: null, error: e }, e the same failure, when
\* it rejects with e.
C14_TryCatchNeverRaises ==
    \A i \in 1..Len(tc.log) :
       LET call == tc.log[i]
       IN IF call.form = "function"
          THEN /\ call.outcome.k = "returned"
               /\ call.did.k = "returns"
                  => call.outcome.v = [result |-> call.did.v, error |-> Null]
               /\ call.did.k = "throws"
                  => call.outcome.v = [result |-> Null, error |-> call.did.v]
          ELSE /\ call.outcome.k = "fulfilled"
               /\ call.did.k = "fulfilled"
                  => call.outcome.v = [result |-> call.did.v, error |-> Null]
               /\ call.did.k = "rejected"
                  => call.outcome.v = [result |-> Null, error |-> call.did.v]

C14_Witness ==
    /\ Len(tc.log) = 2
    /\ tc.log[1] = [form |-> "function", did |-> [k |-> "returns", v |-> Num(0)],
                    outcome |-> Returned([result |-> Num(0), error |-> Null])]
    /\ tc.log[2] = [form |-> "promise", did |-> Rejected(Undef),
                    outcome |-> Fulfilled([result |-> Null, error |-> Undef])]

\* what an invocation was given: its input and what its resolver, handler and
\* observer did
Given(c) ==
    <<inv[c].input, inv[c].authOutcome, inv[c].actionOutcome, inv[c].onErrorThrew>>
\* what an invocation did: its calls on the validator, the handler and the
\* observer, and how it settled
Produced(c) ==
    <<inv[c].safeParseArgs, inv[c].authCalls, inv[c].actionArgs, inv[c].onErrorArgs,
      inv[c].settled>>

\* C15: invocations of one handle share no mutable state. Two invocations,
\* one after the other or interleaved at their suspension points, that have
\* identical input and identical collaborator behaviour make the same calls
\* and settle identically, a failed one with its observer call included; a
\* step of one invocation changes neither the handle nor the other invocation.
C15_InvocationsIndependent ==
    /\ [](\A c, d \in Callers : (Done(c) /\ Done(d) /\ Given(c) = Given(d))
                                  => Produced(c) = Produced(d))
    /\ [][/\ config' = config
          /\ \A c, d \in Callers : (c # d /\ inv'[c] # inv[c]) => inv'[d] = inv[d]]_vars

C15_Witness ==
    /\ config.onError
    /\ \A c \in Callers :
          /\ inv[c].input = Obj([k \in {"name"} |-> Str("John")])
          /\ inv[c].actionOutcome = Rejected(Err(Boom))
          /\ inv[c].onErrorArgs = <<Err(Boom)>>
          /\ inv[c].settled
                = Fulfilled(ActionResult(Undef, ActionError(Undef, Chars(Boom))))

\* func failed in this call, raising while called or rejecting its promise
DalFuncFailed == dal.funcOutcome.k \in {"threw", "rejected"}

\* C16: a data access function never rejects because func failed: when func
\* returns v it resolves to { result: v, error: null }, for every failure e
\* func raises, one holding NEXT_REDIRECT included, it resolves to
\* { result: null, error: e }, and exactly one of result and error is non-null.
C16_FuncFailureReturned ==
    dal.pc = "done"
    => /\ dal.funcOutcome.k = "fulfilled"
          => dal.settled = Fulfilled([result |-> dal.funcOutcome.v, error |-> Null])
       /\ DalFuncFailed
          => dal.settled = Fulfilled([result |-> Null, error |-> dal.funcOutcome.v])
       /\ dal.settled.k = "fulfilled"
          => (dal.settled.v.result # Null) # (dal.settled.v.error # Null)

\* C17: with a resolver configured, a failure of the resolver rejects the call
\* with that failure and func is not called; when the resolver succeeds func
\* is called exactly once with the user first and then the call's parameters
\* in their order; without a resolver func is called with the parameters only.
C17_DalAuthThenFunc ==
    /\ Len(dal.funcArgs) <= 1
    /\ dal.auth
       => /\ dal.authOutcome.k = "rejected"
             => /\ dal.pc = "done"
                /\ dal.settled = Rejected(dal.authOutcome.v)
                /\ dal.funcArgs = <<>>
          /\ dal.authOutcome.k = "fulfilled"
             => dal.funcArgs = << <<dal.authOutcome.v>> \o dal.params >>
          /\ dal.authOutcome.k \in {"none", "pending"} => dal.funcArgs = <<>>
    /\ (~dal.auth /\ dal.pc # "idle")
       => /\ dal.funcArgs = <<dal.params>>
          /\ dal.authCalls = 0

C17_Witness ==
    /\ dal.auth
    /\ dal.params = <<Str("id"), Num(1)>>
    /\ dal.authOutcome = Fulfilled(User1)
    /\ dal.funcArgs = << <<User1, Str("id"), Num(1)>> >>
    /\ dal.pc = "done"

\* the values the literal set was made of
Listed == {lit.arr[i] : i \in 1..Len(lit.arr)}

\* C18: on a literal set made of given values, isLiteral(v) is true exactly
\* when v is one of the values, compared exactly and with regard to case, the
\* empty string only when listed; toLiteral(v) returns v when v is a literal
\* and raises 'Invalid value: v' otherwise; toLiterals(vs) returns the same
\* list when every element is a literal, the empty list for the empty list,
\* and raises 'Invalid value: x' for the first element x that is none.
C18_LiteralSet ==
    /\ lit.op = "isLiteral" => lit.outcome = Returned(lit.arg \in Listed)
    /\ lit.op = "toLiteral"
       => lit.outcome = IF lit.arg \in Listed THEN Returned(lit.arg)
                        ELSE Raised(Err(<<"Invalid value: ", lit.arg>>))
    /\ lit.op = "toLiterals"
       => LET invalid == {i \in 1..Len(lit.arg) : lit.arg[i] \notin Listed}
          IN IF invalid = {} THEN lit.outcome = Returned(lit.arg)
             ELSE \E i \in invalid :
                     /\ \A j \in invalid : i <= j
                     /\ lit.outcome = Raised(Err(<<"Invalid value: ", lit.arg[i]>>))

C18_Witness ==
    /\ lit.arr = <<"red", "">>
    /\ lit.op = "toLiterals"
    /\ lit.arg = <<"RED", "blue">>
    /\ lit.outcome = Raised(Err(<<"Invalid value: ", "RED">>))

\* the positions of an invocation, in the order it passes them
Position(pc) ==
    CASE pc = "idle" -> 0
      [] pc = "auth" -> 1
      [] pc = "action" -> 2
      [] pc = "done" -> 3

\* C19: within one invocation the steps occur only in the order normalize,
\* validate, then either the field-error return or resolve principal, invoke
\* handler, fold, return; validation, principal resolution and the handler
\* are each invoked at most once; on a validating handle the handler is
\* started only after validation has succeeded, and on every handle only
\* after principal resolution, when configured, has completed successfully.
C19_StepsInOrder ==
    /\ [](\A c \in Callers :
            /\ Len(inv[c].safeParseArgs) <= 1
            /\ inv[c].authCalls <= 1
            /\ Len(inv[c].actionArgs) <= 1
            /\ (inv[c].authCalls > 0 /\ config.type # "null")
               => (inv[c].safeParseArgs # <<>> /\ inv[c].parsedInput.success)
            /\ inv[c].actionArgs # <<>>
               => /\ config.type # "null"
                     => (inv[c].safeParseArgs # <<>> /\ inv[c].parsedInput.success)
                  /\ config.auth => inv[c].authOutcome.k = "fulfilled"
            /\ (inv[c].safeParseArgs # <<>> /\ ~inv[c].parsedInput.success)
               => (Done(c) /\ inv[c].authCalls = 0 /\ inv[c].actionArgs = <<>>))
    /\ [][\A c \in Callers :
            inv'[c].pc # inv[c].pc
            => \/ Position(inv[c].pc) < Position(inv'[c].pc)
               \/ inv[c].pc = "done" /\ inv'[c] = Idle]_vars

\* C20: every failure the handler raises is trapped, whether it raises while
\* it is being called or the promise it returned rejects: a non-navigation
\* failure, the observer returning normally, is folded into
\* { error: { message } } and the invocation does not reject.
C20_HandlerFailureTrappedEitherWay ==
    \A c \in Callers :
       (Done(c) /\ inv[c].actionOutcome.k \in {"threw", "rejected"}
          /\ HasMessage(inv[c].actionOutcome.v) /\ ~IsNavigation(inv[c].actionOutcome.v)
          /\ ~inv[c].onErrorThrew)
       => /\ inv[c].settled.k # "rejected"
          /\ inv[c].settled.v.result = Undef
          /\ inv[c].settled.v.error.message = MessageOf(inv[c].actionOutcome.v)

\* C21: the failure-observer is invoked fire-and-forget: once it has been
\* called and has returned, the invocation has returned its
\* { error: { message } } result, whether the work the observer started is
\* still going on, has finished or has failed, and that result does not
\* change afterwards; no returned ActionResult carries the observer's failure.
C21_ObserverFireAndForget ==
    /\ [](\A c \in Callers :
            /\ (inv[c].onErrorArgs # <<>> /\ ~inv[c].onErrorThrew)
               => inv[c].settled
                     = Fulfilled(ActionResult(Undef,
                          ActionError(Undef, MessageOf(HandlerFailure(c)))))
            /\ Resolved(c)
               => /\ inv[c].settled.v.result # ObserverFailure
                  /\ inv[c].settled.v.error # Undef
                     => inv[c].settled.v.error.message # MessageOf(ObserverFailure))
    /\ [][\A c \in Callers :
            (inv[c].pc = "done" /\ inv'[c].pc = "done") => inv'[c].settled = inv[c].settled]_vars

C21_Witness ==
    \E c \in Callers :
       /\ inv[c].actionOutcome = Rejected(Err(Boom))
       /\ inv[c].onErrorArgs = <<Err(Boom)>>
       /\ inv[c].onErrorWork = Rejected(ObserverFailure)
       /\ inv[c].settled = Fulfilled(ActionResult(Undef, ActionError(Undef, Chars(Boom))))

\* C22: every invocation eventually reaches a terminal outcome, a returned
\* ActionResult or a rejection, provided the principal resolver and the
\* handler each eventually settle: an invocation suspended at either await
\* leads to its completion.
C22_InvocationCompletes ==
    \A c \in Callers :
       (inv[c].pc \in {"auth", "action"})
       ~> (Done(c) /\ inv[c].settled.k \in {"fulfilled", "rejected"})

C22_Witness ==
    \E c \in Callers :
       /\ inv[c].authOutcome.k = "fulfilled"
       /\ inv[c].actionOutcome.k \in {"fulfilled", "rejected"}
       /\ Done(c)
       /\ inv[c].settled.k \in {"fulfilled", "rejected"}

\* C23: a handler failure is never reported as success: when the handler
\* raised or its promise rejected, with any value at all, a falsy one
\* included, the invocation does not return an ActionResult with error absent.
C23_FailureNeverSuccess ==
    \A c \in Callers :
       (Done(c) /\ HandlerFailed(c))
       => ~(inv[c].settled.k = "fulfilled" /\ inv[c].settled.v.error = Undef)

\* the failures an invocation's collaborators raised
RaisedByCollaborators(c) ==
    (IF inv[c].authOutcome.k = "rejected" THEN {inv[c].authOutcome.v} ELSE {})
    \cup (IF HandlerFailed(c) THEN {HandlerFailure(c)} ELSE {})
    \cup (IF inv[c].onErrorThrew THEN {ObserverFailure} ELSE {})

\* C24: response folding raises no failure of its own: for every trapped
\* handler failure, one that carries no message included, the invocation
\* re-raises that value or returns an ActionResult; it never rejects with a
\* failure that neither the handler, the principal resolver nor the observer
\* raised.
C24_FoldingRaisesNothing ==
    \A c \in Callers :
       (Done(c) /\ inv[c].settled.k = "rejected")
       => inv[c].settled.v \in RaisedByCollaborators(c)

\* the position of the last entry of a multi-map under a key
LastEntry(es, key) ==
    CHOOSE i \in 1..Len(es) :
       es[i][1] = key /\ \A j \in 1..Len(es) : es[j][1] = key => j <= i

\* C25: when a form-encoded input holds several entries under one key, the
\* object handed to validation has exactly one value per distinct key, the
\* value of the last entry under that key in iteration order, and every
\* distinct key of the multi-map is a key of the object; earlier values of a
\* repeated key are not passed to validation.
C25_LastEntryWins ==
    \A c \in Callers :
       (Started(c) /\ config.type = "form" /\ inv[c].input.t = "FormData")
       => LET es == inv[c].input.entries
              keys == {es[i][1] : i \in 1..Len(es)}
          IN /\ Len(inv[c].safeParseArgs) = 1
             /\ inv[c].safeParseArgs[1].t = "object"
             /\ DOMAIN inv[c].safeParseArgs[1].fields = keys
             /\ \A key \in keys :
                   inv[c].safeParseArgs[1].fields[key] = es[LastEntry(es, key)][2]

C25_Witness ==
    \E c \in Callers :
       /\ config.type = "form"
       /\ inv[c].input = FormData(<< <<"name", Str("John")>>, <<"name", Str("Jane")>> >>)
       /\ inv[c].safeParseArgs = <<Obj([k \in {"name"} |-> Str("Jane")])>>
       /\ inv[c].actionArgs = << <<Obj([k \in {"name"} |-> Str("Jane")])>> >>

====
